---------------------------- MODULE Spec2Model ----------------------------
(***************************************************************************)
(* A model of src/app.py, the Streamlit script of the GHG dashboard.       *)
(*                                                                         *)
(* The script is one top-to-bottom run per user interaction.  The model    *)
(* follows it section by section: load_data (cached), the melt of the two  *)
(* cached tables, the cleaning and exclusion of country names, the sidebar *)
(* widgets, the country-wise views (sector match, decadal percent change,  *)
(* the LULUCF sheet) and the cross-country views (top emitters, dominant   *)
(* sector, dense rank, LULUCF sums).  An uncaught exception ends the run.  *)
(*                                                                         *)
(* Strings are sequences of one-character tokens, so that strip, upper     *)
(* and title are computed character by character as Python computes them.  *)
(* Floats are records: a number n/d, NaN, +inf or -inf.                    *)
(***************************************************************************)
EXTENDS Integers, Sequences, FiniteSets, TLC

(***************************************************************************)
(* Bounds of the model.                                                    *)
(***************************************************************************)
\* rows of the totals table in the totals family of inputs
MaxRows == 3
\* stand-in for the literal top_n = 10 (src/app.py:223, 292): the tables of
\* the model hold a handful of rows, so the cut-off is scaled with them
TopN == 2
\* rows of the sector table in the sector family of inputs
MaxSecRows == 2
\* script runs in one process (the first run and the reruns)
MaxRuns == 2
\* length of the generated names in the normalization family of inputs
MaxNameLen == 3

(***************************************************************************)
(* Characters and strings.                                                 *)
(***************************************************************************)
LowerChars ==
    <<"a", "b", "c", "d", "e", "f", "g", "h", "i", "j", "k", "l", "m", "n",
      "o", "p", "q", "r", "s", "t", "u", "v", "w", "x", "y", "z", "a_acute">>

UpperChars ==
    <<"A", "B", "C", "D", "E", "F", "G", "H", "I", "J", "K", "L", "M", "N",
      "O", "P", "Q", "R", "S", "T", "U", "V", "W", "X", "Y", "Z", "A_ACUTE">>

\* "a_acute" and "A_ACUTE" stand for the single code points U+00E1, U+00C1
IsLower(c) == \E i \in 1..Len(LowerChars) : LowerChars[i] = c

IsUpper(c) == \E i \in 1..Len(UpperChars) : UpperChars[i] = c

IsSpace(c) == c = " "

ToUpper(c) ==
    IF IsLower(c)
    THEN UpperChars[CHOOSE i \in 1..Len(LowerChars) : LowerChars[i] = c]
    ELSE c

ToLower(c) ==
    IF IsUpper(c)
    THEN LowerChars[CHOOSE i \in 1..Len(UpperChars) : UpperChars[i] = c]
    ELSE c

\* str.upper()
upper(s) == [i \in 1..Len(s) |-> ToUpper(s[i])]

\* str.strip(): leading and trailing whitespace removed
strip(s) ==
    LET keep == {i \in 1..Len(s) : ~IsSpace(s[i])}
    IN  IF keep = {} THEN <<>>
        ELSE LET lo == CHOOSE i \in keep : \A j \in keep : i <= j
                 hi == CHOOSE i \in keep : \A j \in keep : j <= i
             IN  SubSeq(s, lo, hi)

\* str.title(): a cased character that follows a cased character is
\* lowercased, any other cased character is uppercased
title(s) ==
    [i \in 1..Len(s) |->
        LET prevCased == i > 1 /\ (IsLower(s[i-1]) \/ IsUpper(s[i-1]))
        IN  IF prevCased THEN ToLower(s[i]) ELSE ToUpper(s[i])]

(***************************************************************************)
(* Floats.                                                                 *)
(***************************************************************************)
NaN == [k |-> "nan", n |-> 0, d |-> 1]

Inf == [k |-> "inf", n |-> 0, d |-> 1]

NegInf == [k |-> "ninf", n |-> 0, d |-> 1]

Num(x) == [k |-> "num", n |-> x, d |-> 1]

IsNaN(x) == x.k = "nan"

\* (a - b) / b * 100 on numpy scalars: a zero divisor gives inf, -inf or
\* NaN with a warning, never an exception; NaN operands give NaN
PercentChange(a, b) ==
    IF IsNaN(a) \/ IsNaN(b) THEN NaN
    ELSE IF b.n = 0
         THEN IF a.n > 0 THEN Inf ELSE IF a.n < 0 THEN NegInf ELSE NaN
         ELSE IF b.n > 0
              THEN [k |-> "num", n |-> (a.n - b.n) * 100, d |-> b.n]
              ELSE [k |-> "num", n |-> (b.n - a.n) * 100, d |-> 0 - b.n]

\* Series.sum(): NaN cells are skipped and an all-NaN (or empty) group sums
\* to 0 (skipna=True, min_count=0)
RECURSIVE SumFloats(_)
SumFloats(xs) ==
    IF xs = <<>> THEN 0
    ELSE (IF IsNaN(Head(xs)) THEN 0 ELSE Head(xs).n) + SumFloats(Tail(xs))

sum(xs) == Num(SumFloats(xs))

(***************************************************************************)
(* Tables.  A wide table (one Excel sheet) is                              *)
(*   [cols : the headers that are not all digits, after strip,             *)
(*    years: the all-digit headers in file order, as integers,             *)
(*    rows : a sequence of [id : cols -> cell, cells : years -> float]].   *)
(* A long table is a sequence of [idx, id, Year, Emissions]; idx is the    *)
(* row's label in the RangeIndex melt gives the frame.                     *)
(***************************************************************************)
Range(f) == {f[i] : i \in DOMAIN f}

\* DataFrame.melt(id_vars, value_vars=years): year by year, and within a
\* year the wide rows in their order
melt(t, id_vars) ==
    LET n == Len(t.rows)
    IN  [j \in 1..(n * Len(t.years)) |->
            LET y == ((j - 1) \div n) + 1
                r == ((j - 1) % n) + 1
            IN  [idx |-> j - 1,
                 id |-> [c \in id_vars |-> t.rows[r].id[c]],
                 Year |-> t.years[y],
                 Emissions |-> t.rows[r].cells[t.years[y]]]]

\* melt raises KeyError when an id_vars column is not in the frame
MeltRaises(t, id_vars) == ~(id_vars \subseteq t.cols)

\* .astype(str).str.strip().str.upper(): the only normalization the
\* script applies to a country name
normalize(s) == upper(strip(s))

\* df["Country"] = df["Country"].astype(str).str.strip().str.upper()
UpperCountries(rows) ==
    [i \in 1..Len(rows) |->
        [rows[i] EXCEPT !.id = [@ EXCEPT !["Country"] = normalize(@)]]]

\* df["Country"] = df["Country"].str.title()
TitleCountries(rows) ==
    [i \in 1..Len(rows) |->
        [rows[i] EXCEPT !.id = [@ EXCEPT !["Country"] = title(@)]]]

\* df["Country"] = df["Country"].astype(str).str.strip()
StripCountries(rows) ==
    [i \in 1..Len(rows) |->
        [rows[i] EXCEPT !.id = [@ EXCEPT !["Country"] = strip(@)]]]


Max(S) == CHOOSE x \in S : \A y \in S : y <= x

Min(S) == CHOOSE x \in S : \A y \in S : x <= y

Perms(n) == {p \in [1..n -> 1..n] : \A i, j \in 1..n : i # j => p[i] # p[j]}

Permute(rows, p) == [i \in 1..Len(rows) |-> rows[p[i]]]

head(rows, n) == SubSeq(rows, 1, IF Len(rows) < n THEN Len(rows) ELSE n)

\* sort_values("Emissions", ascending=False): NaN rows last, in their
\* order; rows of equal value in any order (the default kind, quicksort,
\* is not stable)
DescOrders(rows) ==
    {p \in Perms(Len(rows)) :
        \A i, j \in 1..Len(rows) : i < j =>
            LET a == rows[p[i]].Emissions
                b == rows[p[j]].Emissions
            IN  IF IsNaN(a) THEN IsNaN(b) /\ p[i] < p[j]
                ELSE IsNaN(b) \/ a.n >= b.n}

(***************************************************************************)
(* Program constants.                                                      *)
(***************************************************************************)
\* the default position of the year slider
SliderDefault == 2024

\* the window of the percent change, in years
Decade == 10

exclude_countries ==
    { <<"G", "L", "O", "B", "A", "L", " ", "T", "O", "T", "A", "L">>,
      <<"W", "O", "R", "L", "D">>,
      <<"I", "N", "T", "E", "R", "N", "A", "T", "I", "O", "N", "A", "L", " ",
        "T", "R", "A", "N", "S", "P", "O", "R", "T">>,
      <<"S", "T", "A", "T", "I", "S", "T", "I", "C", "A", "L", " ",
        "D", "I", "F", "F", "E", "R", "E", "N", "C", "E">>,
      <<"O", "T", "H", "E", "R">> }

GLOBAL_TOTAL == <<"G", "L", "O", "B", "A", "L", " ", "T", "O", "T", "A", "L">>

top_n == TopN

(***************************************************************************)
(* State.                                                                  *)
(***************************************************************************)
VARIABLES
    files,              \* the three sheets on disk: country, sector, lulucf
    cache,              \* st.cache_data's entry for load_data(): <<>> or <<value>>
    reads,              \* how many times each sheet was parsed from disk
    runs,               \* script runs started in this process
    edited,             \* the sheets changed on disk since the process started
    pc,                 \* the section of the script the run is at
    err,                \* the exception that ended the run, or "none"
    df_country, df_sector,
    df_country_long, df_sector_long,
    country_totals,
    selected_country, selected_year,
    df_sector_sel, df_all,
    lulucf_long, df_lulucf_country,
    top_emitters, df_dom, df_rank, top_countries, country_sum

procVars == <<files, cache, reads, runs, edited>>

loadVars == <<df_country, df_sector>>

longVars == <<df_country_long, df_sector_long>>

sideVars == <<country_totals, selected_country, selected_year>>

viewVars == <<df_sector_sel, df_all, lulucf_long, df_lulucf_country>>

crossVars == <<top_emitters, df_dom, df_rank, top_countries, country_sum>>

vars == <<procVars, pc, err, loadVars, longVars, sideVars, viewVars, crossVars>>

EmptyTable == [cols |-> {}, years |-> <<>>, rows |-> <<>>]

\* the state a run starts in: nothing of the previous run survives but
\* the process (the files, the cache)
RunStart ==
    /\ pc = "load"
    /\ err = "none"
    /\ df_country = EmptyTable
    /\ df_sector = EmptyTable
    /\ df_country_long = <<>>
    /\ df_sector_long = <<>>
    /\ country_totals = {}
    /\ selected_country = <<>>
    /\ selected_year = 0
    /\ df_sector_sel = <<>>
    /\ df_all = {}
    /\ lulucf_long = <<>>
    /\ df_lulucf_country = <<>>
    /\ top_emitters = <<>>
    /\ df_dom = {}
    /\ df_rank = {}
    /\ top_countries = <<>>
    /\ country_sum = {}

ProcessStart ==
    /\ cache = <<>>
    /\ reads = [country |-> 0, sector |-> 0, lulucf |-> 0]
    /\ runs = 1
    /\ edited = {}

(***************************************************************************)
(* The run, section by section.                                            *)
(***************************************************************************)
\* df_country, df_sector = load_data(), under @st.cache_data: the entry is
\* keyed by the function and its (no) arguments, so the two sheets are
\* parsed on the first call of the process and copied from the cache after
load_data ==
    /\ pc = "load"
    /\ IF cache = <<>>
       THEN /\ cache' = <<[country |-> files.country, sector |-> files.sector]>>
            /\ reads' = [reads EXCEPT !.country = @ + 1, !.sector = @ + 1]
            /\ df_country' = files.country
            /\ df_sector' = files.sector
       ELSE /\ UNCHANGED <<cache, reads>>
            /\ df_country' = cache[1].country
            /\ df_sector' = cache[1].sector
    /\ pc' = "reshape"
    /\ UNCHANGED <<files, runs, edited, err, longVars, sideVars, viewVars, crossVars>>

\* an uncaught exception: Streamlit shows it and the run ends there
Stop(e) == err' = e /\ pc' = "stopped"

\* the two melts; the first missing id column raises KeyError
Reshape ==
    /\ pc = "reshape"
    /\ IF MeltRaises(df_country, {"Country"})
       THEN /\ Stop("KeyError: id_vars")
            /\ UNCHANGED longVars
       ELSE IF MeltRaises(df_sector, {"Country", "Sector"})
       THEN /\ Stop("KeyError: id_vars")
            /\ df_country_long' = melt(df_country, {"Country"})
            /\ UNCHANGED df_sector_long
       ELSE /\ df_country_long' = melt(df_country, {"Country"})
            /\ df_sector_long' = melt(df_sector, {"Country", "Sector"})
            /\ pc' = "clean"
            /\ UNCHANGED err
    /\ UNCHANGED <<procVars, loadVars, sideVars, viewVars, crossVars>>

NotExcluded(r) == r.id["Country"] \notin exclude_countries

\* names upper-cased and stripped, the aggregate rows dropped, the names
\* title-cased: applied to the totals table, wide and long, and to no other
CleanCountries(rows) ==
    TitleCountries(SelectSeq(UpperCountries(rows), NotExcluded))

NotNanString(r) == r.id["Country"] # <<"n", "a", "n">>

Clean ==
    /\ pc = "clean"
    /\ df_country' =
          [df_country EXCEPT !.rows =
              SelectSeq(StripCountries(CleanCountries(@)), NotNanString)]
    /\ df_country_long' = CleanCountries(df_country_long)
    /\ pc' = "sidebar"
    /\ UNCHANGED <<procVars, err, df_sector, df_sector_long, sideVars, viewVars, crossVars>>

Country(r) == r.id["Country"]

EmissionsOf(rows) == [i \in 1..Len(rows) |-> rows[i].Emissions]

\* groupby("Country")["Emissions"].sum(): one row per name that occurs
SumByCountry(rows) ==
    {[key |-> c,
      Emissions |-> sum(EmissionsOf(SelectSeq(rows, LAMBDA r : Country(r) = c)))] :
        c \in {Country(r) : r \in Range(rows)}}

\* groupby(["Country", "Year"])["Emissions"].sum(): one row per pair that
\* occurs
SumByCountryYear(rows) ==
    {[key |-> k,
      Emissions |-> sum(EmissionsOf(SelectSeq(rows, LAMBDA r :
                                      <<Country(r), r.Year>> = k)))] :
        k \in {<<Country(r), r.Year>> : r \in Range(rows)}}

\* the latest-year totals per country, the select box over their names
\* and the year slider over the years of the totals table
Sidebar ==
    /\ pc = "sidebar"
    /\ IF df_country_long = <<>>
       THEN \* Year.max() of an empty frame is NaN and int(NaN) raises
            /\ Stop("ValueError: int(nan)")
            /\ UNCHANGED sideVars
       ELSE LET yrs == {r.Year : r \in Range(df_country_long)}
                latest_year == Max(yrs)
                totals == SumByCountry(SelectSeq(df_country_long,
                                             LAMBDA r : r.Year = latest_year))
            IN  IF ~(Min(yrs) <= SliderDefault /\ SliderDefault <= latest_year)
                THEN \* st.slider refuses a value outside its range
                     /\ Stop("StreamlitAPIException: slider")
                     /\ country_totals' = totals
                     /\ UNCHANGED <<selected_country, selected_year>>
                ELSE /\ country_totals' = totals
                     /\ \E c \in {t.key : t \in totals} : selected_country' = c
                     /\ \E y \in Min(yrs)..latest_year : selected_year' = y
                     /\ pc' = "country"
                     /\ UNCHANGED err
    /\ UNCHANGED <<procVars, loadVars, longVars, viewVars, crossVars>>

\* the rows of a long table the script matches to the selection: equality
\* of the stored name with the select box's string
MatchSelected(rows, sel) == SelectSeq(rows, LAMBDA r : Country(r) = sel)

FirstAt(g, y) == SelectSeq(g, LAMBDA r : r.Year = y)[1].Emissions

HasYear(g, y) == \E r \in Range(g) : r.Year = y

\* the lambda of df_all on one sector's rows g
SectorChange(g, year) ==
    IF HasYear(g, year - Decade)
    THEN PercentChange(FirstAt(g, year), FirstAt(g, year - Decade))
    ELSE NaN

\* values[0] of an empty selection raises IndexError
SectorChangeRaises(g, year) == HasYear(g, year - Decade) /\ ~HasYear(g, year)

\* groupby("Sector").apply(...).reset_index(name="PercentChange").dropna()
DecadalChange(rows, year) ==
    LET group(s) == SelectSeq(rows, LAMBDA r : r.id["Sector"] = s)
        all == {[Sector |-> s, PercentChange |-> SectorChange(group(s), year)] :
                   s \in {r.id["Sector"] : r \in Range(rows)}}
    IN  {e \in all : ~IsNaN(e.PercentChange)}

DecadalChangeRaises(rows, year) ==
    \E s \in {r.id["Sector"] : r \in Range(rows)} :
        SectorChangeRaises(SelectSeq(rows, LAMBDA r : r.id["Sector"] = s), year)

LulucfIds == {"Country", "Sector", "Macro-region"}

\* the country-wise section: the sector rows of the selection, their
\* decadal change, then the LULUCF sheet, read from disk in every run
CountryViews ==
    /\ pc = "country"
    /\ LET sel == MatchSelected(df_sector_long, selected_country)
       IN  /\ df_sector_sel' = SelectSeq(sel, LAMBDA r : r.Year = selected_year)
           /\ \E applyOnEmptyRaises \in (IF sel = <<>> THEN BOOLEAN ELSE {FALSE}) :
                IF applyOnEmptyRaises
                THEN \* apply on no groups gives a DataFrame, and
                     \* DataFrame.reset_index takes no name
                     /\ Stop("TypeError: reset_index")
                     /\ UNCHANGED <<df_all, lulucf_long, df_lulucf_country, reads>>
                ELSE IF DecadalChangeRaises(sel, selected_year)
                THEN /\ Stop("IndexError: values[0]")
                     /\ UNCHANGED <<df_all, lulucf_long, df_lulucf_country, reads>>
                ELSE /\ df_all' = DecadalChange(sel, selected_year)
                     /\ reads' = [reads EXCEPT !.lulucf = @ + 1]
                     /\ IF MeltRaises(files.lulucf, LulucfIds)
                        THEN /\ Stop("KeyError: id_vars")
                             /\ UNCHANGED <<lulucf_long, df_lulucf_country>>
                        ELSE /\ lulucf_long' = melt(files.lulucf, LulucfIds)
                             /\ df_lulucf_country' =
                                   MatchSelected(melt(files.lulucf, LulucfIds),
                                                 selected_country)
                             /\ pc' = "cross"
                             /\ UNCHANGED err
    /\ UNCHANGED <<files, cache, runs, edited, loadVars, longVars, sideVars, crossVars>>

(***************************************************************************)
(* The cross-country section.                                              *)
(***************************************************************************)
IsSelected(r, sel) == upper(Country(r)) = upper(sel)

\* the first sort and cut of the top emitters, under the order p
TopCut(latest, p) == head(Permute(latest, p), top_n)

\* AppendsSelected without its test of the cut
AppendsSelectedAlways(latest, top, sel) ==
    SelectSeq(latest, LAMBDA r : upper(Country(r)) = upper(sel)) # <<>>

\* the selection joins the cut when it has a row in the year and its name
\* is not in the cut
AppendsSelected(latest, top, sel) ==
    /\ SelectSeq(latest, LAMBDA r : IsSelected(r, sel)) # <<>>
    /\ upper(sel) \notin {upper(Country(r)) : r \in Range(top)}

TopPlusSelected(latest, top, sel) ==
    top \o SelectSeq(latest, LAMBDA r : IsSelected(r, sel))

\* groupby("Country")["Emissions"].idxmax() on the year's sector rows: per
\* country the label of the first row holding the maximum, NaN skipped
NonNaN(g) == SelectSeq(g, LAMBDA r : ~IsNaN(r.Emissions))

idxmax(g) ==
    LET m == Max({r.Emissions.n : r \in Range(NonNaN(g))})
    IN  SelectSeq(NonNaN(g), LAMBDA r : r.Emissions.n = m)[1].idx

CountryGroup(rows, c) == SelectSeq(rows, LAMBDA r : Country(r) = c)

\* a country whose cells of the year are all NaN has no maximum: idxmax
\* raises ValueError, or gives a NaN label that .loc refuses with KeyError
DominantRaises(rows) ==
    \E c \in {Country(r) : r \in Range(rows)} : NonNaN(CountryGroup(rows, c)) = <<>>

dominant(rows) ==
    {idxmax(CountryGroup(rows, c)) : c \in {Country(r) : r \in Range(rows)}}

\* Series.rank(ascending=False, method="dense") over one year's values:
\* the values are put in descending order and walked, the rank growing by
\* one at every change of value
SortedDesc(vals) ==
    LET p == CHOOSE q \in Perms(Len(vals)) :
                 \A i, j \in 1..Len(vals) : i < j => vals[q[i]] >= vals[q[j]]
    IN  [i \in 1..Len(vals) |-> vals[p[i]]]

\* method="min" in place of method="dense": a rank counts the rows before
MinWalk(sorted) ==
    [i \in 1..Len(sorted) |->
        1 + Cardinality({j \in 1..Len(sorted) : sorted[j] > sorted[i]})]

DenseWalk(sorted) ==
    [i \in 1..Len(sorted) |->
        1 + Cardinality({j \in 2..i : sorted[j] # sorted[j - 1]})]

SeqOf(S) ==
    CHOOSE f \in [1..Cardinality(S) -> S] : \A x \in S : \E i \in DOMAIN f : f[i] = x

\* the ranks of one year's rows
RankYear(sumsOfYear) ==
    LET rows == SeqOf(sumsOfYear)
        vals == [i \in 1..Len(rows) |-> rows[i].Emissions.n]
        sorted == SortedDesc(vals)
        ranks == DenseWalk(sorted)
    IN  {[Country |-> rows[k].key[1], Year |-> rows[k].key[2],
          Emissions |-> rows[k].Emissions,
          Rank |-> ranks[CHOOSE i \in 1..Len(sorted) : sorted[i] = vals[k]]] :
            k \in 1..Len(rows)}

\* the per-(country, year) sums of the totals table and their dense rank
\* within the year
RankTable(rows) ==
    LET sums == SumByCountryYear(rows)
    IN  UNION {RankYear({t \in sums : t.key[2] = y}) : y \in {t.key[2] : t \in sums}}

\* sort_values("Rank").head(top_n)["Country"].tolist(): the cuts the sort
\* may give, rows of equal rank in any order
RankCuts(ranked) ==
    LET m == IF Cardinality(ranked) < top_n THEN Cardinality(ranked) ELSE top_n
    IN  {c \in [1..m -> ranked] :
            /\ \A i, j \in 1..m : i < j => c[i] # c[j] /\ c[i].Rank <= c[j].Rank
            /\ \A t \in ranked : (\A i \in 1..m : c[i] # t) =>
                                    \A i \in 1..m : c[i].Rank <= t.Rank}

CrossCountry ==
    /\ pc = "cross"
    /\ LET df_latest == SelectSeq(df_country_long, LAMBDA r : r.Year = selected_year)
           year_sector == SelectSeq(df_sector_long, LAMBDA r : r.Year = selected_year)
           upper_long == UpperCountries(df_country_long)
           ranked == RankTable(SelectSeq(upper_long, LAMBDA r : Country(r) # GLOBAL_TOTAL))
       IN  /\ \E p \in DescOrders(df_latest) :
                LET top == TopCut(df_latest, p)
                    both == TopPlusSelected(df_latest, top, selected_country)
                IN  IF AppendsSelected(df_latest, top, selected_country)
                    THEN \E q \in DescOrders(both) :
                            top_emitters' = head(Permute(both, q), top_n + 1)
                    ELSE top_emitters' = top
           /\ IF DominantRaises(year_sector)
              THEN /\ Stop("KeyError: idxmax")
                   /\ UNCHANGED <<df_dom, df_rank, top_countries, country_sum,
                                  df_country_long>>
              ELSE /\ df_dom' = {r \in Range(df_sector_long) :
                                    r.idx \in dominant(year_sector)}
                   /\ df_country_long' = upper_long
                   /\ df_rank' = ranked
                   /\ \E c \in RankCuts({t \in ranked : t.Year = selected_year}) :
                        LET names == [i \in DOMAIN c |-> c[i].Country]
                        IN  top_countries' =
                                IF upper(selected_country) \in Range(names)
                                THEN names
                                ELSE Append(names, upper(selected_country))
                   /\ country_sum' = SumByCountryYear(lulucf_long)
                   /\ pc' = "done"
                   /\ UNCHANGED err
    /\ UNCHANGED <<procVars, loadVars, df_sector_long, sideVars, viewVars>>

(***************************************************************************)
(* The process around the runs.                                            *)
(***************************************************************************)
\* a widget changes (or the page is reloaded): the script runs again from
\* the top, in the same process
Rerun ==
    /\ pc \in {"done", "stopped"}
    /\ runs < MaxRuns
    /\ runs' = runs + 1
    /\ pc' = "load"
    /\ err' = "none"
    /\ df_country' = EmptyTable
    /\ df_sector' = EmptyTable
    /\ df_country_long' = <<>>
    /\ df_sector_long' = <<>>
    /\ country_totals' = {}
    /\ selected_country' = <<>>
    /\ selected_year' = 0
    /\ df_sector_sel' = <<>>
    /\ df_all' = {}
    /\ lulucf_long' = <<>>
    /\ df_lulucf_country' = <<>>
    /\ top_emitters' = <<>>
    /\ df_dom' = {}
    /\ df_rank' = {}
    /\ top_countries' = <<>>
    /\ country_sum' = {}
    /\ UNCHANGED <<files, cache, reads, edited>>

\* a sheet is replaced on disk while the process lives
EditFile ==
    /\ \E f \in {"country", "sector", "lulucf"} :
          /\ f \notin edited
          /\ edited' = edited \cup {f}
          /\ files' = [files EXCEPT ![f] =
                          [@ EXCEPT !.rows = SubSeq(@, 1, Len(@) - 1)]]
    /\ UNCHANGED <<cache, reads, runs, pc, err, loadVars, longVars, sideVars,
                   viewVars, crossVars>>

\* one run of the script
NextRun == load_data \/ Reshape \/ Clean \/ Sidebar \/ CountryViews \/ CrossCountry

(***************************************************************************)
(* Inputs.  Names, then the sheets the specifications start from.          *)
(***************************************************************************)
Chad == <<"C", "h", "a", "d">>

CHAD == <<"C", "H", "A", "D">>

chad_sp == <<" ", "c", "h", "a", "d">>

Peru == <<"P", "e", "r", "u">>

Fiji == <<"F", "i", "j", "i">>

World == <<"W", "o", "r", "l", "d">>

Global_Total == <<"G", "l", "o", "b", "a", "l", " ", "T", "o", "t", "a", "l">>

TotalsRow(name, cells) == [id |-> [c \in {"Country"} |-> name], cells |-> cells]

SectorRow(name, sector, cells) ==
    [id |-> [c \in {"Country", "Sector"} |->
                IF c = "Country" THEN name ELSE sector],
     cells |-> cells]

LulucfRow(name, sector, cells) ==
    [id |-> [c \in LulucfIds |->
                IF c = "Country" THEN name
                ELSE IF c = "Sector" THEN sector ELSE "Africa"],
     cells |-> cells]

Cells(years, v) == [y \in Range(years) |-> v[CHOOSE i \in DOMAIN years : years[i] = y]]

\* a table without the id column c (the sheet names it otherwise or not at all)
Without(t, c) ==
    [t EXCEPT !.cols = @ \ {c},
              !.rows = [i \in DOMAIN @ |->
                          [@[i] EXCEPT !.id = [d \in (DOMAIN @) \ {c} |-> @[d]]]]]

RecentYears == <<2023, 2024>>

DecadeYears == <<2014, 2024>>

BaseTotals(years) ==
    [cols |-> {"Country"}, years |-> years,
     rows |-> << TotalsRow(Chad, Cells(years, <<Num(1), Num(2)>>)),
                 TotalsRow(Peru, Cells(years, <<Num(2), Num(1)>>)) >>]

BaseSector ==
    [cols |-> {"Country", "Sector"}, years |-> DecadeYears,
     rows |-> << SectorRow(Chad, "Energy", Cells(DecadeYears, <<Num(1), Num(2)>>)),
                 SectorRow(Peru, "Energy", Cells(DecadeYears, <<Num(2), Num(1)>>)),
                 SectorRow(Fiji, "Waste", Cells(DecadeYears, <<Num(1), Num(1)>>)) >>]

BaseLulucf ==
    [cols |-> LulucfIds, years |-> RecentYears,
     rows |-> << LulucfRow(Chad, "Forest", Cells(RecentYears, <<Num(0 - 1), NaN>>)),
                 LulucfRow(Peru, "Forest", Cells(RecentYears, <<Num(1), Num(0 - 2)>>)) >>]

(***************************************************************************)
(* The totals family: the totals sheet varies.  Its first row is Chad; up  *)
(* to MaxRows - 1 more rows follow, with names that may repeat an entity   *)
(* in another spelling.  The cell of the latest year may be missing or tie *)
(* with another row's; the cells of the year before are all different.     *)
(***************************************************************************)
TotalsNames == {Chad, chad_sp, Peru, Fiji}

TotalsVals == {NaN, Num(1), Num(2)}

TotalsFamily ==
    {[cols |-> {"Country"}, years |-> RecentYears,
      rows |-> [i \in 1..n |->
                   TotalsRow(names[i], Cells(RecentYears, <<Num(i), vals[i]>>))]] :
        n \in 1..MaxRows,
        names \in {f \in [1..MaxRows -> TotalsNames] : f[1] = Chad},
        vals \in [1..MaxRows -> TotalsVals]}

InitTotals ==
    /\ files \in [country : TotalsFamily, sector : {BaseSector}, lulucf : {BaseLulucf}]
    /\ ProcessStart
    /\ RunStart

SpecTotals == InitTotals /\ [][NextRun]_vars

(***************************************************************************)
(* Claims checked on the totals family.                                    *)
(***************************************************************************)
IsHighlight(r) == upper(Country(r)) = upper(selected_country)

HighlightCount(rows) == Len(SelectSeq(rows, IsHighlight))

YearTotals == SelectSeq(df_country_long, LAMBDA r : r.Year = selected_year)

\* r comes before h in every order the descending sort may give
SurelyBefore(r, h) ==
    IF IsNaN(h.Emissions)
    THEN ~IsNaN(r.Emissions) \/ r.idx < h.idx
    ELSE ~IsNaN(r.Emissions) /\ r.Emissions.n > h.Emissions.n

\* r comes before h in some order the descending sort may give
MaybeBefore(r, h) ==
    \/ SurelyBefore(r, h)
    \/ ~IsNaN(h.Emissions) /\ ~IsNaN(r.Emissions) /\ r.Emissions.n = h.Emissions.n

HighlightRow == SelectSeq(YearTotals, IsHighlight)[1]

RankedInYear == {t \in df_rank : t.Year = selected_year}

HighlightRanked == CHOOSE t \in RankedInYear : t.Country = upper(selected_country)

\* what both top-N results owe the highlight: it is there once, and the
\* result has N members when fewer than N others can come before it and
\* N+1 when N others must
TopPlusHighlightHolds ==
    /\ HighlightCount(top_emitters) = 1
    /\ Len(top_emitters) \in {top_n, top_n + 1}
    /\ Len(SelectSeq(YearTotals, LAMBDA r :
                r # HighlightRow /\ MaybeBefore(r, HighlightRow))) < top_n
          => Len(top_emitters) = top_n
    /\ Len(SelectSeq(YearTotals, LAMBDA r :
                r # HighlightRow /\ SurelyBefore(r, HighlightRow))) >= top_n
          => Len(top_emitters) = top_n + 1
    /\ Len(SelectSeq(top_countries, LAMBDA c : c = upper(selected_country))) = 1
    /\ Cardinality(RankedInYear) >= top_n =>
          /\ Len(top_countries) \in {top_n, top_n + 1}
          /\ Cardinality({t \in RankedInYear : t.Rank <= HighlightRanked.Rank}) <= top_n
                => Len(top_countries) = top_n
          /\ Cardinality({t \in RankedInYear : t.Rank < HighlightRanked.Rank}) >= top_n
                => Len(top_countries) = top_n + 1

C6_DenseRank ==
    pc = "done" =>
        \A y \in {t.Year : t \in df_rank} :
            LET rows == {t \in df_rank : t.Year = y}
                vals == {t.Emissions.n : t \in rows}
            IN  /\ \A a, b \in rows :
                      /\ a.Country = b.Country => a = b
                      /\ a.Emissions.n = b.Emissions.n => a.Rank = b.Rank
                      /\ a.Emissions.n > b.Emissions.n => a.Rank < b.Rank
                      /\ (/\ a.Emissions.n > b.Emissions.n
                          /\ \A v \in vals : ~(v < a.Emissions.n /\ v > b.Emissions.n))
                            => b.Rank = a.Rank + 1
                /\ {t.Rank : t \in rows} = 1..Cardinality(vals)
                /\ \A t \in rows : t.Emissions.n = Max(vals) => t.Rank = 1

\* two entities share the largest value of a year and a third, below
\* them, has rank 2
C6_Witness ==
    /\ pc = "done"
    /\ \E a, b, c \in df_rank :
          /\ a.Year = b.Year /\ b.Year = c.Year
          /\ a # b
          /\ a.Rank = 1 /\ b.Rank = 1 /\ c.Rank = 2
          /\ c.Emissions.n < a.Emissions.n

AllMissing(rows) == rows # <<>> /\ \A r \in Range(rows) : IsNaN(r.Emissions)

\* C7: an entity whose cells for a year are all missing has no value for
\* that year in the latest-year totals, in the sums that are ranked and in
\* the LULUCF sums (no row, or a NaN): never a total of zero
C7_MissingStaysMissing ==
    /\ \A t \in country_totals :
          AllMissing(SelectSeq(df_country_long, LAMBDA r :
                 /\ upper(Country(r)) = upper(t.key)
                 /\ r.Year = Max({q.Year : q \in Range(df_country_long)})))
            => IsNaN(t.Emissions)
    /\ \A t \in df_rank :
          AllMissing(SelectSeq(df_country_long, LAMBDA r :
                 Country(r) = t.Country /\ r.Year = t.Year))
            => IsNaN(t.Emissions)
    /\ \A t \in country_sum :
          AllMissing(SelectSeq(lulucf_long, LAMBDA r :
                 Country(r) = t.key[1] /\ r.Year = t.key[2]))
            => IsNaN(t.Emissions)

(***************************************************************************)
(* The sector family: the sector sheet varies, up to MaxSecRows rows over  *)
(* two countries and two sectors, with the decade's two years or the       *)
(* earlier one alone, cells that may be missing or zero.  The totals sheet *)
(* spans the decade, so the slider offers every year of it.                *)
(***************************************************************************)
SectorVals == {NaN, Num(0), Num(2)}

SectorFamily ==
    {[cols |-> {"Country", "Sector"}, years |-> years,
      rows |-> [i \in 1..n |->
                   SectorRow(names[i], sectors[i],
                             Cells(years, <<before[i], after[i]>>))]] :
        n \in 1..MaxSecRows,
        years \in {DecadeYears, <<2014>>},
        names \in [1..MaxSecRows -> {Chad, Peru}],
        sectors \in [1..MaxSecRows -> {"Energy", "Waste"}],
        before \in [1..MaxSecRows -> SectorVals],
        after \in [1..MaxSecRows -> SectorVals]}

InitSector ==
    /\ files \in [country : {BaseTotals(DecadeYears)}, sector : SectorFamily,
                  lulucf : {BaseLulucf}]
    /\ ProcessStart
    /\ RunStart

SpecSector == InitSector /\ [][NextRun]_vars

(***************************************************************************)
(* Claims checked on the sector family.                                    *)
(***************************************************************************)
SelectedSectorRows == MatchSelected(df_sector_long, selected_country)

SectorRows(s) == SelectSeq(SelectedSectorRows, LAMBDA r : r.id["Sector"] = s)

Observed(g, y) == HasYear(g, y) /\ ~IsNaN(FirstAt(g, y))

\* C3: the decadal change holds an entry for a sector exactly when the
\* sector has an observation at Y and at Y-10 and its value at Y-10 is not
\* zero, the entry is (value[Y] - value[Y-10]) / value[Y-10] * 100, and the
\* computation does not fail on a sector that lacks an observation
C3_DecadalChange ==
    /\ err # "IndexError: values[0]"
    /\ pc \in {"cross", "done"} =>
          \A s \in {r.id["Sector"] : r \in Range(SelectedSectorRows)} :
              LET g == SectorRows(s)
                  defined == /\ Observed(g, selected_year)
                             /\ Observed(g, selected_year - Decade)
                             /\ FirstAt(g, selected_year - Decade).n # 0
                  entries == {e \in df_all : e.Sector = s}
              IN  /\ defined <=> entries # {}
                  /\ \A e \in entries :
                        /\ e.PercentChange.k = "num"
                        /\ e.PercentChange.n * FirstAt(g, selected_year - Decade).n
                              = (FirstAt(g, selected_year).n
                                   - FirstAt(g, selected_year - Decade).n)
                                 * 100 * e.PercentChange.d

YearSectorRows == SelectSeq(df_sector_long, LAMBDA r : r.Year = selected_year)

\* C5: the dominant-sector result holds exactly one row for every entity
\* with a sector row in the year, that row's value is the largest of the
\* entity's values for the year and it is the first row that has it; an
\* entity without a usable row is left out and the computation does not fail
C5_Dominant ==
    /\ err # "KeyError: idxmax"
    /\ pc = "done" =>
          /\ \A r \in df_dom : r \in Range(YearSectorRows)
          /\ \A c \in {Country(r) : r \in Range(YearSectorRows)} :
                LET g == CountryGroup(YearSectorRows, c)
                    picked == {r \in df_dom : Country(r) = c}
                IN  IF NonNaN(g) = <<>> THEN picked = {}
                    ELSE /\ Cardinality(picked) = 1
                         /\ \A r \in picked :
                               /\ ~IsNaN(r.Emissions)
                               /\ \A q \in Range(NonNaN(g)) :
                                     /\ q.Emissions.n <= r.Emissions.n
                                     /\ q.Emissions.n = r.Emissions.n => r.idx <= q.idx

(***************************************************************************)
(* The join family: the names of the three sheets vary independently,      *)
(* over two spellings of a country and two aggregate rows, and each sheet  *)
(* may lack one of the id columns its melt names.  The cells are fixed.    *)
(***************************************************************************)
JoinNames == {Chad, CHAD, World, Global_Total}

OneCells == Cells(RecentYears, <<Num(1), Num(1)>>)

JoinTotals ==
    {[cols |-> {"Country"}, years |-> RecentYears,
      rows |-> [i \in 1..n |-> TotalsRow(names[i], OneCells)]] :
        n \in 1..2, names \in [1..2 -> JoinNames]}

JoinSector ==
    {[cols |-> {"Country", "Sector"}, years |-> RecentYears,
      rows |-> [i \in 1..n |-> SectorRow(names[i], "Energy", OneCells)]] :
        n \in 1..2, names \in [1..2 -> JoinNames]}

JoinLulucf ==
    {[cols |-> LulucfIds, years |-> RecentYears,
      rows |-> <<LulucfRow(name, "Forest", OneCells)>>] : name \in JoinNames}

InitJoin ==
    /\ files \in [country : JoinTotals \cup {Without(t, "Country") : t \in JoinTotals},
                  sector : JoinSector \cup {Without(t, "Sector") : t \in JoinSector},
                  lulucf : JoinLulucf \cup {Without(t, "Macro-region") : t \in JoinLulucf}]
    /\ ProcessStart
    /\ RunStart

SpecJoin == InitJoin /\ [][NextRun]_vars

(***************************************************************************)
(* Claims checked on the join family.                                      *)
(***************************************************************************)
IsAggregate(r) == normalize(Country(r)) \in exclude_countries

\* C1: once the tables are joined (the names cleaned, the widgets drawn
\* and the LULUCF sheet melted) none of the three long tables holds a row
\* whose normalized country name is in the exclusion set
C1_NoAggregateRows ==
    /\ pc \in {"sidebar", "country", "cross", "done"} =>
          /\ \A r \in Range(df_country_long) : ~IsAggregate(r)
          /\ \A r \in Range(df_sector_long) : ~IsAggregate(r)
    /\ pc \in {"cross", "done"} =>
          \A r \in Range(lulucf_long) : ~IsAggregate(r)

SameKey(r) == normalize(Country(r)) = normalize(selected_country)

\* C2: a row of the sector table (at the selected year) and a row of the
\* LULUCF table is matched to the selection exactly when its country name
\* normalizes to the key of the selected country
C2_MatchByKey ==
    pc \in {"cross", "done"} =>
        /\ \A r \in Range(df_sector_long) :
              r.Year = selected_year =>
                  (r \in Range(df_sector_sel) <=> SameKey(r))
        /\ \A r \in Range(lulucf_long) :
              r \in Range(df_lulucf_country) <=> SameKey(r)

Complete(t, ids) == ids \subseteq t.cols

\* C8: a run that meets a sheet without one of its id columns does not
\* stop on it: it ends with the long form of every complete sheet built
C8_OtherReshapesComplete ==
    pc \in {"done", "stopped"} =>
        /\ err # "KeyError: id_vars"
        /\ Complete(files.country, {"Country"}) =>
              Len(df_country_long) = Len(melt(files.country, {"Country"}))
        /\ Complete(files.sector, {"Country", "Sector"}) =>
              df_sector_long = melt(files.sector, {"Country", "Sector"})
        /\ Complete(files.lulucf, LulucfIds) =>
              lulucf_long = melt(files.lulucf, LulucfIds)

(***************************************************************************)
(* The normalization family: the totals sheet holds two rows, a name over  *)
(* a small alphabet (a letter in both cases, its accented form, the space, *)
(* a punctuation mark) and the same name after one edit that keeps its     *)
(* words: the case or the accent of a character changed, a punctuation     *)
(* mark inserted, a space added to a run of spaces or to an end.           *)
(***************************************************************************)
NameAlphabet == {"a", "A", "a_acute", " ", "."}

\* the names of at most MaxNameLen characters that hold a letter
GeneratedNames ==
    {s \in UNION {[1..n -> NameAlphabet] : n \in 1..MaxNameLen} :
        \E i \in DOMAIN s : IsLower(s[i]) \/ IsUpper(s[i])}

SwapCase(c) == IF IsLower(c) THEN ToUpper(c) ELSE ToLower(c)

SwapAccent(c) ==
    IF c = "a" THEN "a_acute" ELSE IF c = "a_acute" THEN "a"
    ELSE IF c = "A" THEN "A_ACUTE" ELSE IF c = "A_ACUTE" THEN "A" ELSE c

InsertAt(s, i, c) == SubSeq(s, 1, i) \o <<c>> \o SubSeq(s, i + 1, Len(s))

NameVariants(s) ==
    {[s EXCEPT ![i] = SwapCase(@)] : i \in 1..Len(s)}
    \cup {[s EXCEPT ![i] = SwapAccent(@)] : i \in 1..Len(s)}
    \cup {InsertAt(s, i, ".") : i \in 0..Len(s)}
    \cup {InsertAt(s, i, " ") :
             i \in {j \in 0..Len(s) : \/ j = 0 \/ j = Len(s)
                                      \/ s[j] = " " \/ s[j + 1] = " "}}

NameFamily ==
    {[cols |-> {"Country"}, years |-> RecentYears,
      rows |-> <<TotalsRow(n1, OneCells), TotalsRow(n2, OneCells)>>] :
        n1 \in GeneratedNames, n2 \in UNION {NameVariants(n) : n \in GeneratedNames}}

InitNames ==
    /\ files \in [country : {t \in NameFamily :
                               t.rows[2].id["Country"]
                                   \in NameVariants(t.rows[1].id["Country"])},
                  sector : {BaseSector}, lulucf : {BaseLulucf}]
    /\ ProcessStart
    /\ RunStart

SpecNames == InitNames /\ [][NextRun]_vars

(***************************************************************************)
(* The claim checked on the normalization family.                          *)
(***************************************************************************)
RECURSIVE CollapseSpaces(_)
CollapseSpaces(s) ==
    IF Len(s) < 2 THEN s
    ELSE IF s[1] = " " /\ s[2] = " " THEN CollapseSpaces(Tail(s))
    ELSE <<s[1]>> \o CollapseSpaces(Tail(s))

\* the words of a name: case and accents dropped, punctuation removed,
\* runs of spaces made one space, the ends trimmed
WordSequence(s) ==
    LET plain == [i \in 1..Len(s) |->
                     IF ToLower(s[i]) = "a_acute" THEN "a" ELSE ToLower(s[i])]
    IN  strip(CollapseSpaces(SelectSeq(plain, LAMBDA c : IsLower(c) \/ IsSpace(c))))

RawName(r) == files.country.rows[(r.idx % Len(files.country.rows)) + 1].id["Country"]

\* C9: two names that are accent, case, punctuation or inner-whitespace
\* variants of the same word sequence get the same key from the program's
\* normalization of country names
C9_VariantsShareKey ==
    pc \in {"sidebar", "country", "cross", "done"} =>
        \A r1, r2 \in Range(df_country_long) :
            WordSequence(RawName(r1)) = WordSequence(RawName(r2))
                => normalize(Country(r1)) = normalize(Country(r2))

(***************************************************************************)
(* The cache family: fixed sheets, any number of runs up to MaxRuns, and   *)
(* sheets that change on disk between or during the runs.                  *)
(***************************************************************************)
InitCache ==
    /\ files = [country |-> BaseTotals(RecentYears), sector |-> BaseSector,
                lulucf |-> BaseLulucf]
    /\ ProcessStart
    /\ RunStart

NextProcess == NextRun \/ Rerun \/ EditFile

SpecCache == InitCache /\ [][NextProcess]_vars

\* C10: while the files are unchanged each sheet is parsed at most once in
\* the process, and a call of load_data made after a sheet has changed
\* does not return the table memoized before the change
C10_ParsedOnceAndFresh ==
    [][/\ edited' = {} => \A f \in DOMAIN reads' : reads'[f] <= 1
       /\ load_data => df_country' = files.country /\ df_sector' = files.sector]_vars

=============================================================================
